---- MODULE Spec2Model ----
(***************************************************************************)
(* get_ndwi_label of src/ndwi_labels.py as a state machine.                *)
(*                                                                         *)
(* One run of the function: the bands are read, the NDWI array is          *)
(* computed, optionally smoothed, the points are read, every point's       *)
(* window is masked / quantized / thresholded / merged into label, and     *)
(* the mean-threshold classification is computed at the end.               *)
(*                                                                         *)
(* Numbers.  Index values are exact rationals [kind, n, d]; the float32    *)
(* values the code computes from small integer bands (green + nir below    *)
(* 127) differ from them by less than 1e-5, and v*127+128 is an integer    *)
(* only for v in {-1, 0, 1}, which float32 represents exactly, so          *)
(* truncation gives the same code.  Non-finite float values are the kinds  *)
(* "inf", "ninf", "nan".                                                   *)
(*                                                                         *)
(* Geometry.  Coordinates are in pixel units scaled by 4 (quarter pixels), *)
(* pixel (r, c) covers [4c, 4c+4] x [4r, 4r+4] and has its centre at       *)
(* (4c+2, 4r+2).  pixel_size cancels: the buffer half side is              *)
(* ksize * pixel_size on the ground, i.e. ksize pixels.  The points used   *)
(* keep the buffer's edges off the pixel centres, where the rasterizer's   *)
(* choice is not determined by the source.                                 *)
(*                                                                         *)
(* Libraries.  rasterio.mask.mask, cv2.threshold, cv2.GaussianBlur and     *)
(* numpy are called by the source, not part of it; they are modelled by    *)
(* their documented behaviour at the source line that calls them.          *)
(*                                                                         *)
(* Scale.  The source's window numbers (default ksize = 100, full window   *)
(* 201, minimum clipped dimension 200) are modelled at ksize = 1, full     *)
(* window 3, minimum 2: the relations 2*ksize+1 and 2*ksize are kept.  As  *)
(* in the source the minimum is a fixed number and does not follow the     *)
(* ksize argument.                                                         *)
(***************************************************************************)
EXTENDS Integers, Sequences, FiniteSets, TLC

\* ---- bounds of the model ------------------------------------------------
Width == 4
Height == 3
MaxPoints == 2

\* ---- program constants ----------------------------------------------------
\* `shape[0] < 200 or shape[1] < 200` (scaled, see Scale above)
MinValid == 2
\* `np.mean(otsu_thresholds_clipped) + 10`
MeanOffset == 10

VARIABLES
  pc,                 \* position in get_ndwi_label
  outcome,            \* "running", "ok", or the exception that ended the run
  green, nir,         \* the two bands, as float32 arrays
  ndwi,               \* the index array
  blurring, ksize,    \* arguments of get_ndwi_label
  label,              \* the label layer
  points,             \* the flattened sequence of points of points_geom
  idx,                \* number of points the loop has taken
  otsu_thresholds_clipped,
  skipped,
  out_image,          \* last quantized full-scene window
  out_image_clipped,  \* last quantized cropped window
  ndwi_8bit, mean_threshold, ndwi_classified

vars == <<pc, outcome, green, nir, ndwi, blurring, ksize, label, points, idx,
          otsu_thresholds_clipped, skipped, out_image, out_image_clipped,
          ndwi_8bit, mean_threshold, ndwi_classified>>

Cells == (0 .. Height - 1) \X (0 .. Width - 1)

\* a Python local that has not been assigned yet
Unset == [c \in {} |-> 0]

\* ---- float values -----------------------------------------------------------
RECURSIVE Gcd(_, _)
Gcd(a, b) == IF b = 0 THEN a ELSE Gcd(b, a % b)
Abs(a) == IF a < 0 THEN -a ELSE a

Fin(n, d) ==
  LET g == Gcd(Abs(n), d) IN [kind |-> "fin", n |-> n \div g, d |-> d \div g]
PosInf == [kind |-> "inf", n |-> 0, d |-> 1]
NegInf == [kind |-> "ninf", n |-> 0, d |-> 1]
NaN == [kind |-> "nan", n |-> 0, d |-> 1]

\* IEEE division of two integer-valued floats
FloatDiv(a, b) ==
  IF b = 0
    THEN (IF a = 0 THEN NaN ELSE IF a > 0 THEN PosInf ELSE NegInf)
    ELSE (IF b > 0 THEN Fin(a, b) ELSE Fin(-a, -b))

Zero == Fin(0, 1)
\* the nodata value handed to mask()
NoData == Fin(-1, 1)

IsNan(v) == v.kind = "nan"
IsFinite(v) == v.kind = "fin"
Leq(u, v) == u.n * v.d <= v.n * u.d

\* ---- Index Computer ---------------------------------------------------------
\* ndwi = (green - nir) / (green + nir); ndwi[np.isnan(ndwi)] = 0
NdwiCell(g, n) ==
  LET q == FloatDiv(g - n, g + n) IN IF IsNan(q) THEN Zero ELSE q

NdwiArray(g, n) == [c \in Cells |-> NdwiCell(g[c], n[c])]

\* ---- Smoother ----------------------------------------------------------------
\* cv2.GaussianBlur(ndwi, ksize_blur, sigmaX, sigmaY): every output cell is a
\* weighted mean (non-negative weights of sum 1) of input cells, so it lies
\* between the least and the greatest input value, and a constant array stays
\* as it is.  The kernel's float weights are not modelled: the outcome is the
\* array itself or any constant array at a value of that interval.
StepArray(s, va, vb) == [c \in Cells |-> IF c[2] < s THEN va ELSE vb]

ValuesOf(a) == {a[c] : c \in DOMAIN a}

HullValues(a, cands) ==
  {v \in cands : (\E u \in ValuesOf(a) : Leq(u, v)) /\ (\E u \in ValuesOf(a) : Leq(v, u))}

GaussianBlur(a, cands) ==
  {a} \cup {[c \in Cells |-> v] : v \in HullValues(a, cands)}

\* ---- Quantizer ----------------------------------------------------------------
\* (x * 127) + 128 followed by astype(np.uint8): the fractional part is
\* dropped.  For x in [-1, 1] the value lies in [1, 255], where dropping the
\* fraction is the floor and no wrap-around happens.
\* (a variant that rounds x to the nearest integer, for comparison)
QuantizeRound(v) == (2 * (127 * v.n + 128 * v.d) + v.d) \div (2 * v.d)

Quantize(v) == (127 * v.n + 128 * v.d) \div v.d

\* ---- Window Extractor (rasterio.mask.mask on the in-memory dataset) -----------
\* point.buffer(ksize * pixel_size, cap_style=3): the square of half side
\* ksize pixels around the point; bounds as left, top, right, bottom.
Buffer(p, k) ==
  [left |-> p[1] - 4 * k, right |-> p[1] + 4 * k,
   top |-> p[2] - 4 * k, bottom |-> p[2] + 4 * k]

FloorPix(a) == a \div 4
CeilPix(a) == -((-a) \div 4)

\* rasterio.features.geometry_window: floor of the least, ceil of the greatest
\* pixel coordinate of the shape's bounds
GeometryWindow(p, k) ==
  LET b == Buffer(p, k) IN
  [row_start |-> FloorPix(b.top), row_stop |-> CeilPix(b.bottom),
   col_start |-> FloorPix(b.left), col_stop |-> CeilPix(b.right)]

\* Window.intersection with Window(0, 0, width, height) raises WindowError
\* when the two do not overlap
Overlaps(p, k) ==
  LET w == GeometryWindow(p, k) IN
  /\ w.row_start < Height /\ w.row_stop > 0
  /\ w.col_start < Width /\ w.col_stop > 0

Max(a, b) == IF a >= b THEN a ELSE b
Min(a, b) == IF a <= b THEN a ELSE b

\* the cells of the cropped window (crop=True)
WindowCells(p, k) ==
  LET w == GeometryWindow(p, k) IN
  {c \in Cells : /\ Max(w.row_start, 0) <= c[1] /\ c[1] < Min(w.row_stop, Height)
                 /\ Max(w.col_start, 0) <= c[2] /\ c[2] < Min(w.col_stop, Width)}

\* out_image_clipped.shape
ClippedShape(p, k) ==
  LET w == GeometryWindow(p, k) IN
  <<Min(w.row_stop, Height) - Max(w.row_start, 0),
    Min(w.col_stop, Width) - Max(w.col_start, 0)>>

\* geometry_mask with all_touched=False: a pixel is inside the shape when its
\* centre is
Burned(p, k, c) ==
  LET b == Buffer(p, k) IN
  /\ b.left < 4 * c[2] + 2 /\ 4 * c[2] + 2 < b.right
  /\ b.top < 4 * c[1] + 2 /\ 4 * c[1] + 2 < b.bottom

\* dataset.read(masked=True) masks the cells equal to the dataset's nodata
\* (ndwi_profile.update(nodata=0)); the shape mask is or-ed in; filled(-1)
MaskedValue(a, p, k, c) ==
  IF Burned(p, k, c) /\ a[c] # Zero THEN a[c] ELSE NoData

\* mask(dataset, shapes=[buffer], nodata=-1, crop=False), quantized
FullWindow(a, p, k) == [c \in Cells |-> Quantize(MaskedValue(a, p, k, c))]

\* mask(dataset, shapes=[buffer], nodata=-1, crop=True), quantized
ClippedWindow(a, p, k) ==
  [c \in WindowCells(p, k) |-> Quantize(MaskedValue(a, p, k, c))]

\* ---- Adaptive Thresholder -------------------------------------------------------
\* `shape[0] < 200 or shape[1] < 200` is the skip test
\* (a variant that tests the height only, for comparison)
AcceptedHeightOnly(shape) == ~(shape[1] < MinValid)

Accepted(shape) == ~(shape[1] < MinValid \/ shape[2] < MinValid)

\* cv2.threshold(..., THRESH_BINARY + THRESH_OTSU): OpenCV's
\* getThreshVal_Otsu_8u.  The loop runs over the 256 levels with q1 (here
\* n1 / N) and mu1 * q1 (here s1 / N); sigma = q1*q2*(mu1-mu2)^2 is kept as the
\* fraction D^2 / (n1*n2) (times 1 / N^2); a level replaces max_val only when
\* its sigma is strictly greater.
Hist(img, i) == Cardinality({c \in DOMAIN img : img[c] = i})

RECURSIVE SumPix(_, _)
SumPix(img, S) ==
  IF S = {} THEN 0 ELSE LET c == CHOOSE x \in S : TRUE IN img[c] + SumPix(img, S \ {c})

FracGT(a, b, c, d) ==
  LET qa == a \div b
      qc == c \div d
  IN IF qa # qc THEN qa > qc ELSE (a % b) * d > (c % d) * b

\* one pass of the loop body for level i
OtsuStep(img, N, S, i, acc) ==
  LET h == Hist(img, i)
      q1 == acc.n1 + h
      q2 == N - q1
      m1 == acc.s1 + i * h
      D == m1 * q2 - (S - m1) * q1
  IN IF q1 = 0 \/ q2 = 0
       THEN [acc EXCEPT !.n1 = q1, !.s1 = m1]
       ELSE IF FracGT(D * D, q1 * q2, acc.maxNum, acc.maxDen)
         THEN [n1 |-> q1, s1 |-> m1, maxNum |-> D * D, maxDen |-> q1 * q2, maxVal |-> i]
         ELSE [acc EXCEPT !.n1 = q1, !.s1 = m1]

\* The loop runs over the levels 0 .. 255 in increasing order.  At a level
\* with h[i] = 0 the pass leaves q1, mu1 and hence sigma as they were, so the
\* strict comparison never takes it: only the levels present in the image
\* are run, in increasing order.
LevelsFrom(img, i) == {v \in ValuesOf(img) : v >= i}
LeastLevel(L) == CHOOSE v \in L : \A u \in L : v <= u

RECURSIVE OtsuLoop(_, _, _, _, _)
OtsuLoop(img, N, S, i, acc) ==
  IF LevelsFrom(img, i) = {} THEN acc.maxVal
  ELSE LET lv == LeastLevel(LevelsFrom(img, i))
       IN OtsuLoop(img, N, S, lv + 1, OtsuStep(img, N, S, lv, acc))

OtsuThreshold(img) ==
  OtsuLoop(img, Cardinality(DOMAIN img), SumPix(img, DOMAIN img), 0,
           [n1 |-> 0, s1 |-> 0, maxNum |-> 0, maxDen |-> 1, maxVal |-> 0])

\* ---- Window Classifier / Label Merger ----------------------------------------------
\* np.where(out_image >= threshold_clipped, 1, 0)
ThresholdWindow(img, t) == [c \in DOMAIN img |-> IF img[c] >= t THEN 1 ELSE 0]

\* (variants that assign the window, or xor it in, for comparison)
MergeOverwrite(lab, tw) == [c \in Cells |-> tw[c]]
MergeXor(lab, tw) == [c \in Cells |-> IF lab[c] # tw[c] THEN 1 ELSE 0]

\* label | threshold_window
MergeLabel(lab, tw) == [c \in Cells |-> IF lab[c] = 1 \/ tw[c] = 1 THEN 1 ELSE 0]

\* ---- Global Comparator ---------------------------------------------------------------
RECURSIVE SumSeq(_)
SumSeq(q) == IF q = <<>> THEN 0 ELSE Head(q) + SumSeq(Tail(q))

\* np.mean(otsu_thresholds_clipped) + 10; np.mean of an empty list is nan
\* (numpy warns, it does not raise)
MeanThreshold(ts) ==
  IF ts = <<>> THEN NaN ELSE Fin(SumSeq(ts) + MeanOffset * Len(ts), Len(ts))

\* np.where(ndwi_8bit >= mean_threshold, 1, 0); a comparison with nan is False
Classify(img, m) ==
  [c \in DOMAIN img |-> IF IsNan(m) THEN 0 ELSE IF img[c] * m.d >= m.n THEN 1 ELSE 0]

\* ---- inputs ------------------------------------------------------------------------
\* (green, nir) values of a pixel: 0/0 (index forced to 0), index 2/3, index -2/3
BandPairs == {<<0, 0>>, <<5, 1>>, <<1, 5>>}
\* band values of the index computer's own specification: signed samples
SignedBands == -2 .. 2
IndexValues == {NdwiCell(b[1], b[2]) : b \in BandPairs}
\* the default ksize (see Scale) and twice that
Ksizes == {1, 2}
\* columns where the raster's step may lie (0: no step)
Steps == {0, 1, 2}
\* points in quarter pixels (x, y): footprint left of the raster, one column
\* inside, two columns inside, inside off the pixel grid, inside on the grid
Candidates == {<<-5, 5>>, <<-1, 5>>, <<3, 5>>, <<5, 5>>, <<4, 8>>}
PointSeqs == UNION {[1 .. n -> Candidates] : n \in 0 .. MaxPoints}

\* ---- the run --------------------------------------------------------------------------
Locals ==
  /\ pc = "start" /\ outcome = "running"
  /\ ndwi = Unset /\ label = Unset
  /\ points = <<>> /\ idx = 0
  /\ otsu_thresholds_clipped = <<>> /\ skipped = 0
  /\ out_image = Unset /\ out_image_clipped = Unset
  /\ ndwi_8bit = Unset /\ mean_threshold = NaN /\ ndwi_classified = Unset

Init ==
  /\ Locals
  /\ \E s \in Steps, a \in BandPairs, b \in BandPairs :
       /\ green = StepArray(s, a[1], b[1])
       /\ nir = StepArray(s, a[2], b[2])
  /\ blurring \in BOOLEAN
  /\ ksize \in Ksizes

\* lines 76-87
ComputeNDWI ==
  /\ pc = "start"
  /\ ndwi' = NdwiArray(green, nir)
  /\ pc' = "blur"
  /\ UNCHANGED <<outcome, green, nir, blurring, ksize, label, points, idx,
                 otsu_thresholds_clipped, skipped, out_image, out_image_clipped,
                 ndwi_8bit, mean_threshold, ndwi_classified>>

\* lines 88-99
Smooth ==
  /\ pc = "blur"
  /\ ndwi' \in (IF blurring THEN GaussianBlur(ndwi, IndexValues) ELSE {ndwi})
  /\ label' = [c \in Cells |-> 0]
  /\ pc' = "points"
  /\ UNCHANGED <<outcome, green, nir, blurring, ksize, points, idx,
                 otsu_thresholds_clipped, skipped, out_image, out_image_clipped,
                 ndwi_8bit, mean_threshold, ndwi_classified>>

\* lines 101-109
ReadPoints ==
  /\ pc = "points"
  /\ points' \in PointSeqs
  /\ otsu_thresholds_clipped' = <<>>
  /\ skipped' = 0
  /\ pc' = "loop"
  /\ UNCHANGED <<outcome, green, nir, ndwi, blurring, ksize, label, idx,
                 out_image, out_image_clipped, ndwi_8bit, mean_threshold,
                 ndwi_classified>>

\* lines 112-130, a footprint that does not overlap the raster: the first
\* mask call (crop=False) warns and returns the all-masked array, the second
\* (crop=True) raises ValueError, which nothing catches
MaskRaises ==
  /\ pc = "loop" /\ idx < Len(points)
  /\ LET p == points[idx + 1] IN
       /\ ~Overlaps(p, ksize)
       /\ out_image' = FullWindow(ndwi, p, ksize)
  /\ outcome' = "ValueError"
  /\ pc' = "done"
  /\ UNCHANGED <<green, nir, ndwi, blurring, ksize, label, points, idx,
                 otsu_thresholds_clipped, skipped, out_image_clipped,
                 ndwi_8bit, mean_threshold, ndwi_classified>>

\* lines 112-138
SkipWindow ==
  /\ pc = "loop" /\ idx < Len(points)
  /\ LET p == points[idx + 1] IN
       /\ Overlaps(p, ksize)
       /\ ~Accepted(ClippedShape(p, ksize))
       /\ out_image' = FullWindow(ndwi, p, ksize)
       /\ out_image_clipped' = ClippedWindow(ndwi, p, ksize)
  /\ skipped' = skipped + 1
  /\ idx' = idx + 1
  /\ UNCHANGED <<pc, outcome, green, nir, ndwi, blurring, ksize, label, points,
                 otsu_thresholds_clipped, ndwi_8bit, mean_threshold,
                 ndwi_classified>>

\* lines 112-133, 140-145
AcceptWindow ==
  /\ pc = "loop" /\ idx < Len(points)
  /\ LET p == points[idx + 1]
         full == FullWindow(ndwi, p, ksize)
         clipped == ClippedWindow(ndwi, p, ksize)
         threshold_clipped == OtsuThreshold(clipped)
     IN
       /\ Overlaps(p, ksize)
       /\ Accepted(ClippedShape(p, ksize))
       /\ out_image' = full
       /\ out_image_clipped' = clipped
       /\ otsu_thresholds_clipped' = Append(otsu_thresholds_clipped, threshold_clipped)
       /\ label' = MergeLabel(label, ThresholdWindow(full, threshold_clipped))
  /\ idx' = idx + 1
  /\ UNCHANGED <<pc, outcome, green, nir, ndwi, blurring, ksize, points, skipped,
                 ndwi_8bit, mean_threshold, ndwi_classified>>

\* lines 147-182
Report ==
  /\ pc = "loop" /\ idx = Len(points)
  /\ mean_threshold' = MeanThreshold(otsu_thresholds_clipped)
  /\ ndwi_8bit' = [c \in Cells |-> Quantize(ndwi[c])]
  /\ ndwi_classified' = Classify(ndwi_8bit', mean_threshold')
  /\ outcome' = "ok"
  /\ pc' = "done"
  /\ UNCHANGED <<green, nir, ndwi, blurring, ksize, label, points, idx,
                 otsu_thresholds_clipped, skipped, out_image, out_image_clipped>>

Next ==
  \/ ComputeNDWI
  \/ Smooth
  \/ ReadPoints
  \/ MaskRaises
  \/ SkipWindow
  \/ AcceptWindow
  \/ Report

Spec == Init /\ [][Next]_vars

\* ---- the index computer on signed samples ----------------------------------------------
\* read(...).astype(np.float32) accepts every sample type, signed ones included
InitIndex ==
  /\ Locals
  /\ \E s \in Steps, a \in SignedBands \X SignedBands, b \in SignedBands \X SignedBands :
       /\ green = StepArray(s, a[1], b[1])
       /\ nir = StepArray(s, a[2], b[2])
  /\ blurring = FALSE
  /\ ksize = 1

SpecIndex == InitIndex /\ [][ComputeNDWI]_vars

\* ---- properties ---------------------------------------------------------------------------
\* the point of the loop pass that is about to run
Current == points[idx + 1]
InLoop == pc = "loop" /\ idx < Len(points)
ShapeOf(p) == ClippedShape(p, ksize)
TooSmall(p) == ShapeOf(p)[1] < MinValid \/ ShapeOf(p)[2] < MinValid

\* what the set of points determines, whatever their order
AcceptedIdx == {j \in 1 .. Len(points) : Overlaps(points[j], ksize) /\ ~TooSmall(points[j])}
RejectedIdx == {j \in 1 .. Len(points) : Overlaps(points[j], ksize) /\ TooSmall(points[j])}
ThresholdOf(j) == OtsuThreshold(ClippedWindow(ndwi, points[j], ksize))
\* the thresholds of points 1 .. n, -1 for a point that is not accepted
RECURSIVE Thresholds(_)
Thresholds(n) ==
  IF n = 0 THEN <<>>
  ELSE Append(Thresholds(n - 1), IF n \in AcceptedIdx THEN ThresholdOf(n) ELSE -1)
\* cell c is 1 in the mask of point j's window, whose threshold is t
InMask(j, t, c) == Quantize(MaskedValue(ndwi, points[j], ksize, c)) >= t
Count(q, t) == Cardinality({i \in 1 .. Len(q) : q[i] = t})

\* C1: the end of the run is a function of the set of points, not of the order
\* the loop takes them in: label is the union of the accepted windows' masks,
\* the thresholds are those of the accepted points (as a multiset), skipped is
\* the number of rejected points, and the run raises exactly when some
\* footprint misses the raster.
C1_OrderInvariance ==
  pc = "done" =>
    /\ outcome = "ValueError" <=> \E j \in 1 .. Len(points) : ~Overlaps(points[j], ksize)
    /\ outcome = "ok" =>
         LET thr == Thresholds(Len(points)) IN
         /\ \A c \in Cells : label[c] = 1 <=> \E j \in AcceptedIdx : InMask(j, thr[j], c)
         /\ \A c \in Cells : label[c] \in {0, 1}
         /\ \A t \in 0 .. 255 :
              Count(otsu_thresholds_clipped, t) = Count(thr, t)
         /\ skipped = Cardinality(RejectedIdx)

\* two different accepted windows, each with a cell of its own in label
C1_TwoWindowsMerged ==
  /\ pc = "done" /\ outcome = "ok"
  /\ Len(otsu_thresholds_clipped) = 2
  /\ LET thr == Thresholds(2) IN
       /\ \E c \in Cells : InMask(1, thr[1], c) /\ ~InMask(2, thr[2], c) /\ label[c] = 1
       /\ \E c \in Cells : InMask(2, thr[2], c) /\ ~InMask(1, thr[1], c) /\ label[c] = 1
  /\ \E c \in Cells : label[c] = 0

\* C2: a pass over a window whose clipped height or width is below the minimum
\* adds one to skipped and leaves the thresholds and label as they were; a
\* threshold is only ever appended by a pass over a window whose clipped
\* height and width both reach the minimum.
C2_SmallWindowRejected ==
  [][/\ (InLoop /\ Overlaps(Current, ksize) /\ TooSmall(Current)) =>
          /\ skipped' = skipped + 1
          /\ otsu_thresholds_clipped' = otsu_thresholds_clipped
          /\ label' = label
     /\ Len(otsu_thresholds_clipped') > Len(otsu_thresholds_clipped) =>
          /\ InLoop /\ Overlaps(Current, ksize)
          /\ ShapeOf(Current)[1] >= MinValid /\ ShapeOf(Current)[2] >= MinValid
          /\ Len(otsu_thresholds_clipped') = Len(otsu_thresholds_clipped) + 1]_vars

C2_SmallWindowSeen ==
  /\ pc = "loop" /\ idx = 2 /\ skipped = 1
  /\ Len(otsu_thresholds_clipped) = 1
  /\ Overlaps(points[2], ksize) /\ TooSmall(points[2])
  /\ ShapeOf(points[2])[1] >= MinValid
  /\ \E c \in Cells : label[c] = 1

\* C3: when the loop ends with no threshold, the comparator step fails: the run
\* does not end normally and no comparator classification exists.
C3_EmptyThresholdsFail ==
  (pc = "done" /\ otsu_thresholds_clipped = <<>>) =>
    (outcome # "ok" /\ ndwi_classified = Unset)

\* C4: a pass over a point whose footprint misses the raster does not end the
\* run: it adds one to skipped, appends no threshold, leaves label alone and
\* the loop moves on to the next point.
C4_NoOverlapIsSkipped ==
  [][(InLoop /\ ~Overlaps(Current, ksize)) =>
        /\ outcome' = "running" /\ pc' = "loop"
        /\ idx' = idx + 1
        /\ skipped' = skipped + 1
        /\ otsu_thresholds_clipped' = otsu_thresholds_clipped
        /\ label' = label]_vars

\* C5: label is created all zero, and no step ever turns a 1 of label into 0.
C5_LabelMonotone ==
  [][/\ (label = Unset /\ label' # Unset) => \A c \in Cells : label'[c] = 0
     /\ label # Unset =>
          /\ DOMAIN label' = Cells
          /\ \A c \in Cells : label[c] = 1 => label'[c] = 1]_vars

C5_LabelGrewTwice ==
  /\ pc = "loop" /\ idx = 2
  /\ Len(otsu_thresholds_clipped) = 2
  /\ \E c \in Cells :
       /\ label[c] = 1
       /\ FullWindow(ndwi, points[1], ksize)[c] >= otsu_thresholds_clipped[1]
       /\ FullWindow(ndwi, points[2], ksize)[c] >= otsu_thresholds_clipped[2]

\* the point whose windows out_image and out_image_clipped hold
MaskedPoint == IF outcome = "ValueError" THEN points[idx + 1] ELSE points[idx]
\* x = v*127 + 128 as the fraction XNum(v) / v.d
XNum(v) == 127 * v.n + 128 * v.d
IsNearest(q, v) == 2 * Abs(q * v.d - XNum(v)) <= v.d
IsTruncation(q, v) == q * v.d <= XNum(v) /\ XNum(v) < (q + 1) * v.d

\* C6 as stated: every 8-bit array holds, cell by cell, the integer nearest to
\* v*127 + 128.
C6_RoundsToNearest ==
  /\ out_image # Unset =>
       \A c \in Cells : IsNearest(out_image[c], MaskedValue(ndwi, MaskedPoint, ksize, c))
  /\ out_image_clipped # Unset =>
       \A c \in DOMAIN out_image_clipped :
         IsNearest(out_image_clipped[c], MaskedValue(ndwi, points[idx], ksize, c))
  /\ ndwi_8bit # Unset => \A c \in Cells : IsNearest(ndwi_8bit[c], ndwi[c])

\* C6 as amended: every 8-bit array holds, cell by cell, v*127 + 128 with its
\* fraction dropped, a code in 1 .. 255; a masked cell (value -1) holds code 1.
C6_Truncates ==
  /\ out_image # Unset =>
       \A c \in Cells :
         /\ IsTruncation(out_image[c], MaskedValue(ndwi, MaskedPoint, ksize, c))
         /\ out_image[c] \in 1 .. 255
         /\ ~Burned(MaskedPoint, ksize, c) => out_image[c] = 1
  /\ out_image_clipped # Unset =>
       \A c \in DOMAIN out_image_clipped :
         /\ IsTruncation(out_image_clipped[c], MaskedValue(ndwi, points[idx], ksize, c))
         /\ out_image_clipped[c] \in 1 .. 255
         /\ ~Burned(points[idx], ksize, c) => out_image_clipped[c] = 1
  /\ ndwi_8bit # Unset =>
       \A c \in Cells : IsTruncation(ndwi_8bit[c], ndwi[c]) /\ ndwi_8bit[c] \in 1 .. 255

\* a cell whose x has a fraction above one half sits in all three arrays
C6_FractionDropped ==
  /\ pc = "done" /\ outcome = "ok"
  /\ out_image_clipped # Unset
  /\ \E c \in DOMAIN out_image_clipped :
       LET v == MaskedValue(ndwi, points[idx], ksize, c) IN
       /\ 2 * (XNum(v) % v.d) > v.d
       /\ v = ndwi[c]
       /\ out_image[c] = out_image_clipped[c]
       /\ ndwi_8bit[c] = out_image[c]

\* C7: after the index is computed, every cell is a finite number and every
\* cell with green + nir = 0 holds 0.
C7_ZeroDenominatorIsZero ==
  pc = "blur" =>
    \A c \in Cells :
      /\ IsFinite(ndwi[c])
      /\ green[c] + nir[c] = 0 => ndwi[c] = Zero

\* C8: without blurring, a first accepted window whose clipped cells are all
\* inside the footprint, none of them nodata, and hold exactly two codes, is
\* split at the step: the cells of the higher code get label 1 and those of
\* the lower code get label 0.
C8_StepSplitsCleanly ==
  (/\ pc = "loop" /\ idx = 1 /\ Len(otsu_thresholds_clipped) = 1
   /\ ~blurring
   /\ \A c \in DOMAIN out_image_clipped : Burned(points[1], ksize, c) /\ ndwi[c] # Zero
   /\ Cardinality(ValuesOf(out_image_clipped)) = 2)
  => \A c \in DOMAIN out_image_clipped :
       label[c] = IF \A e \in DOMAIN out_image_clipped :
                       out_image_clipped[e] <= out_image_clipped[c]
                  THEN 1 ELSE 0

\* the footprint's pixel window reaches beyond the raster
BeyondRaster(p) ==
  LET w == GeometryWindow(p, ksize) IN
  w.row_start < 0 \/ w.col_start < 0 \/ w.row_stop > Height \/ w.col_stop > Width

\* C9: a pass over a window that reaches beyond the raster, so that its clipped
\* array is smaller than 2*ksize+1 in some dimension, adds one to skipped and
\* leaves the thresholds and label as they were.
C9_PartialWindowSkipped ==
  [][(/\ InLoop /\ Overlaps(Current, ksize) /\ BeyondRaster(Current)
      /\ (ShapeOf(Current)[1] < 2 * ksize + 1 \/ ShapeOf(Current)[2] < 2 * ksize + 1))
     => /\ skipped' = skipped + 1
        /\ otsu_thresholds_clipped' = otsu_thresholds_clipped
        /\ label' = label]_vars

\* C10: a pass that accepts a window leaves every cell of label outside the
\* window's footprint as it was.
C10_MergeStaysInFootprint ==
  [][(InLoop /\ Len(otsu_thresholds_clipped') > Len(otsu_thresholds_clipped)) =>
        \A c \in Cells : ~Burned(Current, ksize, c) => label'[c] = label[c]]_vars

====
